---- MODULE Spec2Model ----
(***************************************************************************)
(* Model of mefikit's interchange layer (python/mefikit/io.py): the three  *)
(* adapters to_meshio, to_mc and to_pyvista, which re-encode the blocks    *)
(* and coordinates of a UMesh for three downstream consumers.              *)
(*                                                                         *)
(* Arrays are sequences (1-based); a 2-d array `conn` is the record        *)
(* [shape1 |-> number of columns, rows |-> sequence of rows], so that a    *)
(* table with no rows still has a column count, as conn.shape[1] does.     *)
(* A python dict is a sequence of [et, conn] records with distinct keys,   *)
(* in the dict's iteration order.                                          *)
(***************************************************************************)
EXTENDS Integers, Sequences, FiniteSets, TLC

(* ------------------------------ bounds --------------------------------- *)
\* most blocks a mesh holds
MaxBlocks == 2
\* most rows (elements) of one block
MaxRows == 2
\* most points of the coordinate matrix
MaxPts == 2

\* element-type tags the meshes are built from: one of dimension 0, one of
\* dimension 1, two of dimension 2 with different node counts, one of
\* dimension 3, and one tag outside the catalogue
InputTags == {"VERTEX", "SEG2", "TRI3", "QUAD4", "HEX8", "PYRA5"}
\* values of the coordinate entries
CoordVals == {0, 1, 2}
\* value a consumer writes into the coordinate array of a payload
WriteVals == {7}

(* --------------------------- the catalogue ----------------------------- *)
type_order ==
    << "VERTEX", "SEG2", "SEG3", "TRI3", "TRI6", "QUAD4", "QUAD8",
       "TET4", "TET10", "HEX8", "HEX20" >>

meshio_to_mefikit_type ==
    [ vertex |-> "VERTEX", line |-> "SEG2", line3 |-> "SEG3",
      triangle |-> "TRI3", triangle6 |-> "TRI6", quad |-> "QUAD4",
      quad8 |-> "QUAD8", tetra |-> "TET4", tetra10 |-> "TET10",
      hexahedron |-> "HEX8", hexahedron20 |-> "HEX20" ]

\* {v: k for k, v in meshio_to_mefikit_type.items()}
mefikit_to_meshio_type ==
    [ v \in { meshio_to_mefikit_type[k] : k \in DOMAIN meshio_to_mefikit_type } |->
        CHOOSE k \in DOMAIN meshio_to_mefikit_type : meshio_to_mefikit_type[k] = v ]

mf_types_dim ==
    [ VERTEX |-> 0, SEG2 |-> 1, SEG3 |-> 1, TRI3 |-> 2, TRI6 |-> 2,
      QUAD4 |-> 2, QUAD8 |-> 2, TET4 |-> 3, TET10 |-> 3, HEX8 |-> 3,
      HEX20 |-> 3 ]

mf_types_num_node ==
    [ VERTEX |-> 1, SEG2 |-> 2, SEG3 |-> 3, TRI3 |-> 3, TRI6 |-> 6,
      QUAD4 |-> 4, QUAD8 |-> 8, TET4 |-> 4, TET10 |-> 10, HEX8 |-> 8,
      HEX20 |-> 20 ]

mf_types_mc_id ==
    [ VERTEX |-> 0, SEG2 |-> 1, SEG3 |-> 2, TRI3 |-> 3, TRI6 |-> 6,
      QUAD4 |-> 4, QUAD8 |-> 8, TET4 |-> 14, TET10 |-> 20, HEX8 |-> 18,
      HEX20 |-> 30 ]

\* the members of pv.CellType that io.py names, with their VTK values
CellType ==
    [ VERTEX |-> 1, LINE |-> 3, TRIANGLE |-> 5, QUAD |-> 9, TETRA |-> 10,
      HEXAHEDRON |-> 12, WEDGE |-> 13, QUADRATIC_EDGE |-> 21,
      QUADRATIC_TRIANGLE |-> 22, QUADRATIC_QUAD |-> 23,
      QUADRATIC_TETRA |-> 24, QUADRATIC_HEXAHEDRON |-> 25 ]

mf_types_to_pv ==
    [ VERTEX |-> CellType.VERTEX,
      SEG2 |-> CellType.WEDGE,
      SEG3 |-> CellType.QUADRATIC_EDGE,
      TRI3 |-> CellType.TRIANGLE,
      TRI6 |-> CellType.QUADRATIC_TRIANGLE,
      QUAD4 |-> CellType.QUAD,
      QUAD8 |-> CellType.QUADRATIC_QUAD,
      TET4 |-> CellType.TETRA,
      TET10 |-> CellType.QUADRATIC_TETRA,
      HEX8 |-> CellType.HEXAHEDRON,
      HEX20 |-> CellType.QUADRATIC_HEXAHEDRON ]

(* ----------------------------- numpy ----------------------------------- *)
\* np.arange(n): 0, 1, ..., n-1
Arange(n) == [ i \in 1..n |-> i - 1 ]

\* a.flatten() of a 2-d array, row-major
RECURSIVE FlattenRows(_)
FlattenRows(rows) ==
    IF rows = << >> THEN << >> ELSE Head(rows) \o FlattenRows(Tail(rows))

Flatten(conn) == FlattenRows(conn.rows)

\* np.insert(arr, idx, val) on a 1-d array: val is put before each of the
\* original positions idx (0-based; position len(arr) appends)
RECURSIVE InsertFrom(_, _, _, _)
InsertFrom(arr, idx, val, p) ==
    LET here == IF \E i \in 1..Len(idx) : idx[i] = p - 1 THEN << val >> ELSE << >>
    IN  IF p > Len(arr) THEN here
        ELSE here \o << arr[p] >> \o InsertFrom(arr, idx, val, p + 1)

NpInsert(arr, idx, val) == InsertFrom(arr, idx, val, 1)

\* np.zeros((m, n))
Zeros(m, n) == [ i \in 1..m |-> [ j \in 1..n |-> 0 ] ]

\* np.hstack of two 2-d arrays with the same number of rows
HStack2(a, b) == [ i \in 1..Len(a) |-> a[i] \o b[i] ]

\* shape[1] of a coordinate matrix (the model keeps at least one point)
Shape1(mat) == Len(mat[1])

(* ------------------------------ dict ----------------------------------- *)
Keys(d) == { d[i].et : i \in 1..Len(d) }

Get(d, et) == d[CHOOSE i \in 1..Len(d) : d[i].et = et].conn

(* ------------------------------ state ---------------------------------- *)
VARIABLES
    blocks,   \* umesh.blocks(): the dict from tag to table, in iteration order
    heap,     \* the arrays of coordinates: address -> matrix
    res,      \* what the last adapter call returned or raised
    pc        \* "mesh": no adapter called yet; "done": called; "written"

vars == << blocks, heap, res, pc >>

\* address of the array umesh.coords() returns, and of a newly allocated one
CoordsAddr == 0
FreshAddr == 1

NoArray == << >>

\* np.arange(m * d).reshape((m, d)), the coordinates the tests build
ArangeCoords(m, d) == [ i \in 1..m |-> [ j \in 1..d |-> (i - 1) * d + (j - 1) ] ]

\* the table of n rows and k columns whose row i starts at node n - i and
\* walks the points cyclically: its rows are not sorted by content
MkTable(n, k) ==
    [ shape1 |-> k,
      rows |-> [ i \in 1..n |-> [ j \in 1..k |-> ((n - i) + (j - 1)) % MaxPts ] ] ]

\* column counts a producer hands over for a tag: the catalogue's, one more
\* (a malformed block), and 5 for the tag outside the catalogue
InputCols(et) ==
    IF et \in DOMAIN mf_types_num_node
    THEN { mf_types_num_node[et], mf_types_num_node[et] + 1 }
    ELSE { 5 }

Init ==
    /\ blocks = << >>
    /\ heap = [ a \in {CoordsAddr, FreshAddr} |->
                  IF a = CoordsAddr THEN ArangeCoords(MaxPts, 3) ELSE NoArray ]
    /\ res = [ kind |-> "none" ]
    /\ pc = "mesh"

\* a mesh of any m x d coordinates, d in 1..3, holding no block
InitCoords ==
    /\ blocks = << >>
    /\ \E m \in 1..MaxPts, d \in 1..3 :
         \E mat \in [ 1..m -> [ 1..d -> CoordVals ] ] :
            heap = [ a \in {CoordsAddr, FreshAddr} |->
                       IF a = CoordsAddr THEN mat ELSE NoArray ]
    /\ res = [ kind |-> "none" ]
    /\ pc = "mesh"

\* umesh.add_regular_block(et, table)
add_regular_block ==
    /\ pc = "mesh"
    /\ Len(blocks) < MaxBlocks
    /\ \E et \in InputTags \ Keys(blocks) :
         \E n \in 0..MaxRows, k \in InputCols(et) :
            blocks' = Append(blocks, [ et |-> et, conn |-> MkTable(n, k) ])
    /\ UNCHANGED << heap, res, pc >>


(* ----------------------------- to_meshio ------------------------------- *)
Raise(exc) == [ kind |-> "error", exc |-> exc ]

\* cells = {mefikit_to_meshio_type[t]: b for (t, b) in blocks.items()}:
\* one entry per item of blocks, in the iteration order of blocks
meshio_cells(blks) ==
    [ i \in 1..Len(blks) |->
        [ type |-> mefikit_to_meshio_type[blks[i].et], data |-> blks[i].conn ] ]

ToMeshio(blks) ==
    IF \E et \in Keys(blks) : et \notin DOMAIN mefikit_to_meshio_type
    THEN Raise("KeyError")
    ELSE [ kind |-> "meshio", points |-> CoordsAddr, cells |-> meshio_cells(blks) ]

to_meshio ==
    /\ pc = "mesh"
    /\ res' = ToMeshio(blocks)
    /\ pc' = "done"
    /\ UNCHANGED << blocks, heap >>

(* ------------------------------- to_mc --------------------------------- *)
\* the lev argument: << >> is None, << l >> is the level l
NoLev == << >>
LevArgs == { NoLev } \cup { << mf_types_dim[et] >> : et \in DOMAIN mf_types_dim }

Max(S) == CHOOSE x \in S : \A y \in S : y <= x

\* if lev is None: lev = max(mf_types_dim[et] for et in blocks)
mc_lev_falsy(levArg, blks) ==
    IF levArg = NoLev \/ levArg[1] = 0
    THEN IF \E et \in Keys(blks) : et \notin DOMAIN mf_types_dim THEN Raise("KeyError")
         ELSE IF blks = << >> THEN Raise("ValueError")
         ELSE [ kind |-> "lev", lev |-> Max({ mf_types_dim[et] : et \in Keys(blks) }) ]
    ELSE [ kind |-> "lev", lev |-> levArg[1] ]

mc_lev(levArg, blks) ==
    IF levArg = NoLev
    THEN IF \E et \in Keys(blks) : et \notin DOMAIN mf_types_dim THEN Raise("KeyError")
         ELSE IF blks = << >> THEN Raise("ValueError")
         ELSE [ kind |-> "lev", lev |-> Max({ mf_types_dim[et] : et \in Keys(blks) }) ]
    ELSE [ kind |-> "lev", lev |-> levArg[1] ]

mf_reg_to_mc_connectivity(et, conn) ==
    LET num_nodes == conn.shape1
        n_elem == Len(conn.rows)
    IN  [ new_connectivity |->
            NpInsert(Flatten(conn),
                     [ i \in 1..n_elem |-> Arange(n_elem)[i] * num_nodes ],
                     mf_types_mc_id[et]),
          offsets |-> [ i \in 1..n_elem |-> Arange(n_elem)[i] * (num_nodes + 1) ] ]

\* one iteration of the loop over type_order, from the accumulators acc
mc_loop_body(acc, et, blks, lev) ==
    IF et \notin Keys(blks) \/ mf_types_dim[et] # lev
    THEN acc
    ELSE LET r == mf_reg_to_mc_connectivity(et, Get(blks, et))
             shifted == [ i \in 1..Len(r.offsets) |->
                            r.offsets[i] + acc.mc_offset[Len(acc.mc_offset)] ]
             offset == IF Len(acc.mc_offset) > 0
                       THEN SubSeq(shifted, 2, Len(shifted))
                       ELSE r.offsets
         IN  [ mc_conn |-> acc.mc_conn \o r.new_connectivity,
               mc_offset |-> acc.mc_offset \o offset ]

\* the accumulators after the first i iterations of the loop
RECURSIVE McLoop(_, _, _)
McLoop(blks, lev, i) ==
    IF i = 0 THEN [ mc_conn |-> << >>, mc_offset |-> << >> ]
    ELSE mc_loop_body(McLoop(blks, lev, i - 1), type_order[i], blks, lev)

ToMc(blks, coords, levArg) ==
    LET l == mc_lev(levArg, blks)
    IN  IF l.kind = "error" THEN l
        ELSE LET acc == McLoop(blks, l.lev, Len(type_order))
             IN  [ kind |-> "mc", levArg |-> levArg, lev |-> l.lev,
                   coords |-> coords, conn |-> acc.mc_conn,
                   offsets |-> acc.mc_offset, name |-> "mf_UMesh" ]

to_mc ==
    /\ pc = "mesh"
    /\ \E levArg \in LevArgs : res' = ToMc(blocks, heap[CoordsAddr], levArg)
    /\ pc' = "done"
    /\ UNCHANGED << blocks, heap >>

(* ----------------------------- to_pyvista ------------------------------ *)
mf_reg_to_pv_connectivity_code(et, conn) ==
    LET num_nodes == conn.shape1
        n_elem == Len(conn.rows)
    IN  [ new_connectivity |->
            NpInsert(Flatten(conn),
                     [ i \in 1..n_elem |-> Arange(n_elem)[i] * num_nodes ],
                     mf_types_to_pv[et]),
          elems_type |-> [ i \in 1..n_elem |-> mf_types_to_pv[et] ] ]

mf_reg_to_pv_connectivity(et, conn) ==
    LET num_nodes == conn.shape1
        n_elem == Len(conn.rows)
    IN  [ new_connectivity |->
            NpInsert(Flatten(conn),
                     [ i \in 1..n_elem |-> Arange(n_elem)[i] * num_nodes ],
                     num_nodes),
          elems_type |-> [ i \in 1..n_elem |-> mf_types_to_pv[et] ] ]

\* one iteration of the loop over type_order
pv_loop_body(acc, et, blks) ==
    IF et \notin Keys(blks)
    THEN acc
    ELSE LET r == mf_reg_to_pv_connectivity(et, Get(blks, et))
         IN  [ pv_conn |-> acc.pv_conn \o r.new_connectivity,
               pv_et_types |-> acc.pv_et_types \o r.elems_type ]

RECURSIVE PvLoop(_, _)
PvLoop(blks, i) ==
    IF i = 0 THEN [ pv_conn |-> << >>, pv_et_types |-> << >> ]
    ELSE pv_loop_body(PvLoop(blks, i - 1), type_order[i], blks)

\* the coordinates handed to pv.UnstructuredGrid: fresh says whether np.hstack
\* allocated them, mat is their content
pv_coords_short(coords) ==
    IF Shape1(coords) = 1
    THEN [ fresh |-> TRUE, mat |-> HStack2(coords, Zeros(Len(coords), 1)) ]
    ELSE IF Shape1(coords) = 2
    THEN [ fresh |-> TRUE, mat |-> HStack2(coords, Zeros(Len(coords), 1)) ]
    ELSE [ fresh |-> FALSE, mat |-> coords ]

pv_coords(coords) ==
    IF Shape1(coords) = 1
    THEN [ fresh |-> TRUE, mat |-> HStack2(coords, Zeros(Len(coords), 2)) ]
    ELSE IF Shape1(coords) = 2
    THEN [ fresh |-> TRUE, mat |-> HStack2(coords, Zeros(Len(coords), 1)) ]
    ELSE [ fresh |-> FALSE, mat |-> coords ]

to_pyvista ==
    /\ pc = "mesh"
    /\ LET acc == PvLoop(blocks, Len(type_order))
           c == pv_coords(heap[CoordsAddr])
       IN  /\ heap' = IF c.fresh THEN [ heap EXCEPT ![FreshAddr] = c.mat ] ELSE heap
           /\ res' = [ kind |-> "pv", conn |-> acc.pv_conn, types |-> acc.pv_et_types,
                       points |-> IF c.fresh THEN FreshAddr ELSE CoordsAddr ]
    /\ pc' = "done"
    /\ UNCHANGED blocks

\* the consumer writes one entry of the coordinate array of the payload
WritePayloadCoords ==
    /\ pc = "done"
    /\ res.kind = "pv"
    /\ \E i \in 1..Len(heap[res.points]), j \in 1..3, v \in WriteVals :
          heap' = [ heap EXCEPT ![res.points][i][j] = v ]
    /\ pc' = "written"
    /\ UNCHANGED << blocks, res >>

(* -------------------------- specifications ----------------------------- *)
Next == add_regular_block \/ to_meshio \/ to_mc \/ to_pyvista

Spec == Init /\ [][Next]_vars

NextCoords == to_pyvista \/ WritePayloadCoords

SpecCoords == InitCoords /\ [][NextCoords]_vars

(* ------------------- reference definitions of the claims --------------- *)
Catalogue == { type_order[i] : i \in 1..Len(type_order) }

Payloads == { "meshio", "mc", "pv" }

\* a mesh of the data model: every tag in the catalogue, every table as wide
\* as the node count of its tag
ValidMesh(blks) ==
    \A i \in 1..Len(blks) :
        /\ blks[i].et \in Catalogue
        /\ blks[i].conn.shape1 = mf_types_num_node[blks[i].et]

\* the tags of sel that blks holds, in canonical order
CanonicalTags(blks, sel) ==
    SelectSeq(type_order, LAMBDA t : t \in Keys(blks) /\ t \in sel)

\* the elements of the blocks of the tags ts, block by block, row by row
RECURSIVE ElemsOfTags(_, _)
ElemsOfTags(blks, ts) ==
    IF ts = << >> THEN << >>
    ELSE LET rows == Get(blks, Head(ts)).rows
         IN  [ i \in 1..Len(rows) |-> [ et |-> Head(ts), row |-> rows[i] ] ]
             \o ElemsOfTags(blks, Tail(ts))

ElemsOf(blks, sel) == ElemsOfTags(blks, CanonicalTags(blks, sel))

\* the tags of dimension lev
TagsOfLevel(lev) == { t \in Catalogue : mf_types_dim[t] = lev }

\* the level to_mc is to use for the argument levArg
ExpectedLev(blks, levArg) ==
    IF levArg # NoLev THEN levArg[1]
    ELSE Max({ mf_types_dim[t] : t \in Keys(blks) })

\* [prefix, i0, ..., i_{k-1}] for each element, the prefix read in the table pre
RECURSIVE Records(_, _)
Records(elems, pre) ==
    IF elems = << >> THEN << >>
    ELSE << pre[Head(elems).et] >> \o Head(elems).row \o Records(Tail(elems), pre)

\* sum of (nodeCount + 1) over the first n elements
RECURSIVE SlotsBefore(_, _)
SlotsBefore(elems, n) ==
    IF n = 0 THEN 0
    ELSE SlotsBefore(elems, n - 1) + mf_types_num_node[elems[n].et] + 1

StrictlyIncreasing(s) == \A i \in 1..(Len(s) - 1) : s[i] < s[i + 1]

\* the sequences holding the items of blks in some order
Reorderings(blks) ==
    { q \in [ 1..Len(blks) -> { blks[i] : i \in 1..Len(blks) } ] :
        \A i \in 1..Len(blks) : \E j \in 1..Len(blks) : q[j] = blks[i] }

\* position of a catalogue tag in type_order
CanonicalIndex(t) == CHOOSE i \in 1..Len(type_order) : type_order[i] = t

\* VTK's cell types: number of nodes and topological dimension
VtkCells ==
    { [ id |-> 1, nodes |-> 1, dim |-> 0 ],  [ id |-> 3, nodes |-> 2, dim |-> 1 ],
      [ id |-> 5, nodes |-> 3, dim |-> 2 ],  [ id |-> 9, nodes |-> 4, dim |-> 2 ],
      [ id |-> 10, nodes |-> 4, dim |-> 3 ], [ id |-> 12, nodes |-> 8, dim |-> 3 ],
      [ id |-> 13, nodes |-> 6, dim |-> 3 ], [ id |-> 21, nodes |-> 3, dim |-> 1 ],
      [ id |-> 22, nodes |-> 6, dim |-> 2 ], [ id |-> 23, nodes |-> 8, dim |-> 2 ],
      [ id |-> 24, nodes |-> 10, dim |-> 3 ], [ id |-> 25, nodes |-> 20, dim |-> 3 ] }

VtkCell(id) == CHOOSE c \in VtkCells : c.id = id

(* ------------------------------- claims -------------------------------- *)
\* C1: in the payload of to_mc, offsets[e] is the index of the stream where
\* the record of element e begins: the sum of (nodeCount + 1) over the
\* elements emitted before e, where the stream holds the type code of e
\* followed by the nodes of e.  Stated for the meshes of the data model.
C1_OffsetsIndexRecords ==
    (res.kind = "mc" /\ ValidMesh(blocks)) =>
        LET elems == ElemsOf(blocks, TagsOfLevel(ExpectedLev(blocks, res.levArg)))
        IN  /\ res.offsets = [ e \in 1..Len(elems) |-> SlotsBefore(elems, e - 1) ]
            /\ \A e \in 1..Len(elems) :
                 LET o == res.offsets[e]
                     k == mf_types_num_node[elems[e].et]
                 IN  /\ res.conn[o + 1] = mf_types_mc_id[elems[e].et]
                     /\ SubSeq(res.conn, o + 2, o + 1 + k) = elems[e].row

\* C2: after every iteration of the block loop of to_mc, and at return, the
\* accumulated offsets start at 0 when not empty, increase strictly, and are
\* as many as the elements of the blocks emitted so far.
C2_OffsetsShape ==
    res.kind = "mc" =>
        \A i \in 0..Len(type_order) :
            LET acc == McLoop(blocks, res.lev, i)
                done == { type_order[j] : j \in 1..i } \cap TagsOfLevel(res.lev)
            IN  /\ Len(acc.mc_offset) > 0 => acc.mc_offset[1] = 0
                /\ StrictlyIncreasing(acc.mc_offset)
                /\ Len(acc.mc_offset) = Len(ElemsOf(blocks, done))

\* C3: to_pyvista emits every block of a mesh of the data model, whatever its
\* dimension: the stream is [nodeCount, nodes...] per element, blocks in
\* canonical order and rows in input order; typeIds has one entry per
\* element, the code of its type; the stream has sum (nodeCount + 1) entries.
C3_PyvistaStream ==
    (res.kind = "pv" /\ ValidMesh(blocks)) =>
        LET elems == ElemsOf(blocks, Catalogue)
        IN  /\ res.conn = Records(elems, mf_types_num_node)
            /\ res.types = [ e \in 1..Len(elems) |-> mf_types_to_pv[elems[e].et] ]
            /\ Len(res.conn) = SlotsBefore(elems, Len(elems))

\* the scenario of the spec: TRI3 with two rows and QUAD4 with one, QUAD4
\* inserted first, converted by to_pyvista
C3_Witness ==
    /\ res.kind = "pv"
    /\ Len(blocks) = 2
    /\ blocks[1].et = "QUAD4" /\ blocks[1].conn = MkTable(1, 4)
    /\ blocks[2].et = "TRI3" /\ blocks[2].conn = MkTable(2, 3)
    /\ Len(res.types) = 3
    /\ Len(res.conn) = 13

\* C4: each adapter puts the blocks in canonical type order, never in the
\* iteration order of blocks(): the payload is the same for every order the
\* same blocks are held in.
C4_CanonicalBlockOrder ==
    /\ res.kind = "meshio" =>
         \A i, j \in 1..Len(res.cells) :
            i < j => CanonicalIndex(meshio_to_mefikit_type[res.cells[i].type])
                     < CanonicalIndex(meshio_to_mefikit_type[res.cells[j].type])
    /\ res.kind = "mc" =>
         \A q \in Reorderings(blocks) : ToMc(q, res.coords, res.levArg) = res
    /\ res.kind = "pv" =>
         \A q \in Reorderings(blocks) :
            LET acc == PvLoop(q, Len(type_order))
            IN  acc.pv_conn = res.conn /\ acc.pv_et_types = res.types

\* C5: to_mc uses the requested level unchanged when one is given (0
\* included), else the greatest dimension of the types present; the stream
\* holds exactly the elements of the blocks of that level.
C5_LevelSelection ==
    res.kind = "mc" =>
        LET lev == ExpectedLev(blocks, res.levArg)
        IN  /\ res.lev = lev
            /\ res.conn = Records(ElemsOf(blocks, TagsOfLevel(lev)), mf_types_mc_id)

\* the scenario of the spec: {TRI3: 2 rows, HEX8: 1 row} with lev = 2 emits
\* the TRI3 rows only
C5_Witness ==
    /\ res.kind = "mc"
    /\ res.levArg = << 2 >>
    /\ Len(blocks) = 2
    /\ blocks[1].et = "HEX8" /\ blocks[1].conn = MkTable(1, 8)
    /\ blocks[2].et = "TRI3" /\ blocks[2].conn = MkTable(2, 3)
    /\ Len(res.conn) = 8

\* C6: when blocks() holds a key outside the catalogue, no adapter returns a
\* payload.
C6_UnknownTypeRaises ==
    (\E et \in Keys(blocks) : et \notin Catalogue) => res.kind \notin Payloads

\* C7: when a block's column count differs from the node count of its type,
\* to_mc and to_pyvista return no payload (stated for a block that holds an
\* element).
C7_MalformedBlockRaises ==
    (\E i \in 1..Len(blocks) :
        /\ blocks[i].et \in Catalogue
        /\ blocks[i].conn.rows # << >>
        /\ blocks[i].conn.shape1 # mf_types_num_node[blocks[i].et])
    => res.kind \notin { "mc", "pv" }

\* C8: the coordinates to_pyvista hands over are m x 3: the first d columns
\* are the input's, the other 3 - d columns are zero.
C8_CoordsPadded ==
    (pc = "done" /\ res.kind = "pv") =>
        LET coords == heap[CoordsAddr]
            out == heap[res.points]
            d == Shape1(coords)
        IN  /\ Len(out) = Len(coords)
            /\ \A i \in 1..Len(out) :
                 /\ Len(out[i]) = 3
                 /\ \A j \in 1..3 : out[i][j] = IF j <= d THEN coords[i][j] ELSE 0

\* a single column of MaxPts points, not all zero, converted by to_pyvista
C8_Witness ==
    /\ pc = "done"
    /\ res.kind = "pv"
    /\ Len(heap[CoordsAddr]) = MaxPts
    /\ Shape1(heap[CoordsAddr]) = 1
    /\ \E i \in 1..MaxPts : heap[CoordsAddr][i][1] # 0

\* C9: the coordinates of the payload are an array of their own: neither the
\* conversion nor a later write to the payload's coordinates changes the
\* array read from the mesh.
C9_CoordsNeverChanged ==
    [][heap'[CoordsAddr] = heap[CoordsAddr]]_vars

\* C10: in the payload of to_pyvista for a mesh of the data model, the cell
\* type of each element has as many nodes as the size prefix of the element
\* and the dimension of the element's tag.
C10_CellTypeShape ==
    (res.kind = "pv" /\ ValidMesh(blocks)) =>
        LET elems == ElemsOf(blocks, Catalogue)
        IN  \A e \in 1..Len(res.types) :
              /\ VtkCell(res.types[e]).nodes
                   = res.conn[SlotsBefore(elems, e - 1) + 1]
              /\ VtkCell(res.types[e]).dim = mf_types_dim[elems[e].et]

====
